---- MODULE Spec2Model ----
(***************************************************************************)
(* Model of the search de-duplication and completion-coordination logic of *)
(* resilient_async_cts: AsyncCTS.scanArtifactHandler, the done-callback    *)
(* search_complete_handler, and the DB store operations they call.         *)
(*                                                                         *)
(* One asyncio event loop: an action is the code one coroutine or callback *)
(* runs between two suspension points (await), so actions of different     *)
(* requests interleave only at awaits.  The two tables live in an external *)
(* database, so their content at start-up is an input of the program.      *)
(*                                                                         *)
(* Abstractions: ids and hits are opaque values (the SQL column types of   *)
(* the tables are not modelled); uuid.uuid4() is collision free; a store   *)
(* operation whose connection cannot be opened fails (asyncpg.connect      *)
(* raises), chosen nondeterministically.                                   *)
(***************************************************************************)
EXTENDS Integers, Sequences, FiniteSets, TLC

\* ---------------------------------------------------------------- bounds
MaxReqs == 2          \* requests handled in one run
MaxPreRows == 2       \* rows the two tables hold, together, at start-up

MaxPortCalls == 3     \* calls in one sequence made on both backends
MaxPortKeys == 2      \* active searches a call can name by id
MaxSetItems == 1      \* item assignments made on one built DTO

Reqs == 1..MaxReqs

\* ---------------------------------------------------------------- values
None == "None"

\* Python truthiness of an optional string: `not x`.
Falsy(x) == x = None \/ x = ""

\* The (type, value) pairs stored rows may carry.
Fingerprints == { [type |-> "uri", value |-> "a"], [type |-> "file", value |-> "a"] }

\* Request bodies: the fingerprints, and one body with no "value" key
\* (artifact_payload.get('value') is None).
RequestArtifacts == Fingerprints \cup { [type |-> "uri", value |-> None] }

\* A file artifact arrives as a multipart request, with its file; any other
\* artifact as application/json, without one.
IsMultipart(a) == a.type = "file"

\* What the searcher coroutine can return.
Payloads == { "verdict" }

json_dumps(p) == <<"json", p>>
json_loads(s) == s[2]

uuid4(r) == <<"uuid", r>>

NoResp == [status |-> "none"]

\* The handler ended with an exception (aiohttp answers 500).
ErrorResponse == [status |-> "error"]

\* ---------------------------------------------------------------- state
VARIABLES
  active,            \* table <id>_active_searches, in insertion order
  results,           \* table <id>_results, in insertion order
  pc,                \* where each request's handler coroutine is
  artifact_payload,  \* the request's parsed body (type, value); None before it is read
  file_payload,      \* TRUE when the request came with a file (temp file written)
  file,              \* the temp file: "none", "present", "deleted"
  unlinks,           \* number of os.unlink calls made on the temp file
  lookups,           \* the two gathered lookups: "pending" or a LookupStatus
  past_results,      \* rows returned by search_for_results
  active_searches,   \* rows returned by search_for_active_search
  search_id,         \* the uuid generated on the launch path
  marker,            \* id of the row add_active_search inserted for the request, or None
  task,              \* the searcher task: "none","scheduled","running","ok","failed"
  task_result,       \* the payload the searcher returned
  cb,                \* search_complete_handler: "none","returned","raised"
  rm,                \* the remove_active_search task: "none","scheduled","done","failed"
  rm_time,           \* "none", or whether the delete ran "before" or "after" that insert
  st,                \* the store_search_results task: "none","scheduled","done","failed"
  resp,              \* what the handler gave back to aiohttp
  mongo_active,      \* collection <id>_active_searches, in insertion order
  mongo_results,     \* collection <id>_results, in insertion order
  port_call,         \* the last call made on both backends, and the calls so far
  port_before,       \* the two active-search stores as that call found them
  sql_out,           \* what DB gave back for that call
  mongo_out,         \* what Mongo gave back for that call
  dto_args,          \* the (type, name, value) an ArtifactPropertyDTO is built from
  dto,               \* the construction: "unbuilt", "built" (with its items) or "raised"
  dto_sets           \* number of item assignments made on the built DTO

\* The variables of a hit property being built.
dto_vars == <<dto_args, dto, dto_sets>>

\* The variables of the two backends driven side by side.
port_vars == <<mongo_active, mongo_results, port_call, port_before, sql_out,
               mongo_out>>

vars == <<active, results, pc, artifact_payload, file_payload, file, unlinks,
          lookups, past_results, active_searches, search_id, marker, task,
          task_result, cb, rm, rm_time, st, resp, port_vars, dto_vars>>


\* ---------------------------------------------------------------- stores
\* Rows of a table matching a search id / a (type, value) pair (SQL WHERE).
RowsById(rows, id) ==
  LET Test(x) == x.search_id = id IN SelectSeq(rows, Test)

RowsByArtifact(rows, artifact_type, artifact_value) ==
  LET Test(x) == x.artifact_type = artifact_type /\ x.artifact_value = artifact_value
  IN SelectSeq(rows, Test)

Raised == [ok |-> FALSE, rows |-> <<>>]

\* Variant: the argument test asks for both parts of the fingerprint to be
\* missing (`and` for `or`).
search_for_active_search_BothMissing(rows, id, artifact_type, artifact_value) ==
  IF Falsy(id) /\ (Falsy(artifact_type) /\ Falsy(artifact_value))
  THEN Raised
  ELSE IF ~Falsy(id)
       THEN [ok |-> TRUE, rows |-> RowsById(rows, id)]
       ELSE [ok |-> TRUE, rows |-> RowsByArtifact(rows, artifact_type, artifact_value)]

\* DB.search_for_active_search
search_for_active_search(rows, id, artifact_type, artifact_value) ==
  IF Falsy(id) /\ (Falsy(artifact_type) \/ Falsy(artifact_value))
  THEN Raised
  ELSE IF ~Falsy(id)
       THEN [ok |-> TRUE, rows |-> RowsById(rows, id)]
       ELSE [ok |-> TRUE, rows |-> RowsByArtifact(rows, artifact_type, artifact_value)]

\* DB.search_for_results
search_for_results(rows, id, artifact_type, artifact_value) ==
  IF Falsy(id) /\ (Falsy(artifact_type) \/ Falsy(artifact_value))
  THEN Raised
  ELSE IF ~Falsy(id)
       THEN [ok |-> TRUE, rows |-> RowsById(rows, id)]
       ELSE [ok |-> TRUE, rows |-> RowsByArtifact(rows, artifact_type, artifact_value)]

\* Variant: the DELETE has lost its WHERE clause.
remove_active_search_Truncate(rows, id) == <<>>

\* DB.remove_active_search: DELETE ... WHERE search_id = $1; the command status
\* is returned whatever the number of rows deleted.
remove_active_search(rows, id) ==
  LET Keep(x) == x.search_id # id IN SelectSeq(rows, Keep)

\* DB.add_active_search(self, conn, artifact_type, artifact_value): `args` are
\* the positional arguments the caller passes after self (conn is supplied by
\* the decorator).  Any other number of arguments is a TypeError at the call
\* inside handle_db_connection.inner; with two, the row gets a store-assigned
\* serial id, `serial` being the next value of the column's sequence.
add_active_search(rows, serial, args) ==
  IF Len(args) # 2
  THEN [ok |-> FALSE, rows |-> rows, id |-> None]
  ELSE LET id == <<"serial", serial>>
       IN [ok |-> TRUE,
           rows |-> Append(rows, [search_id |-> id, artifact_type |-> args[1],
                                  artifact_value |-> args[2]]),
           id |-> id]

\* Variant: the table has no key on search_id and the INSERT is sent again
\* after the first acknowledgement is lost.
store_search_results_Resent(rows, id, artifact_type, artifact_value, hit) ==
  LET row == [search_id |-> id, artifact_type |-> artifact_type,
              artifact_value |-> artifact_value, hit |-> hit]
  IN [ok |-> TRUE, rows |-> Append(Append(rows, row), row)]

\* DB.store_search_results: INSERT; search_id is the table's primary key.
store_search_results(rows, id, artifact_type, artifact_value, hit) ==
  IF Len(RowsById(rows, id)) > 0
  THEN [ok |-> FALSE, rows |-> rows]
  ELSE [ok |-> TRUE,
        rows |-> Append(rows, [search_id |-> id, artifact_type |-> artifact_type,
                               artifact_value |-> artifact_value, hit |-> hit])]

\* ---------------------------------------------------------------- documents
\* Documents of a collection matching a filter, in natural order.
Mongo_DocsById(docs, id) ==
  LET Test(x) == x._id = id IN SelectSeq(docs, Test)

Mongo_DocsBySearchId(docs, id) ==
  LET Test(x) == x.search_id = id IN SelectSeq(docs, Test)

Mongo_DocsByArtifact(docs, artifact_type, artifact_value) ==
  LET Test(x) == x.artifact_value = artifact_value /\ x.artifact_type = artifact_type
  IN SelectSeq(docs, Test)

\* collection.find_one: the first matching document, or None (no document).
find_one(matches) ==
  IF matches = <<>> THEN <<>> ELSE <<Head(matches)>>

Mongo_ValueError == [ok |-> FALSE, rows |-> <<>>]

\* Mongo.add_active_search: insert_one, acknowledged; `oid` is the ObjectId
\* the driver generates.
Mongo_add_active_search(docs, oid, artifact_type, artifact_value) ==
  [ok |-> TRUE,
   docs |-> Append(docs, [_id |-> oid, artifact_type |-> artifact_type,
                          artifact_value |-> artifact_value]),
   id |-> oid]

\* Mongo.search_for_active_search
Mongo_search_for_active_search(docs, id, artifact_type, artifact_value) ==
  IF ~Falsy(id)
  THEN [ok |-> TRUE, rows |-> find_one(Mongo_DocsById(docs, id))]
  ELSE IF ~Falsy(artifact_type) /\ ~Falsy(artifact_value)
       THEN [ok |-> TRUE,
             rows |-> find_one(Mongo_DocsByArtifact(docs, artifact_type, artifact_value))]
       ELSE Mongo_ValueError

\* Mongo.remove_active_search: delete_many on _id, then the count decides.
Mongo_remove_active_search(docs, id) ==
  LET deleted_count == Len(Mongo_DocsById(docs, id))
      Keep(x) == x._id # id
  IN IF deleted_count = 1
     THEN [ok |-> TRUE, docs |-> SelectSeq(docs, Keep), exc |-> None]
     ELSE IF deleted_count > 1
          THEN [ok |-> FALSE, docs |-> SelectSeq(docs, Keep),
                exc |-> "DeletedMultipleActiveSearches"]
          ELSE [ok |-> FALSE, docs |-> docs, exc |-> "ActiveSearchNotFound"]

\* Mongo.search_for_results
Mongo_search_for_results(docs, id, artifact_type, artifact_value) ==
  IF ~Falsy(id)
  THEN [ok |-> TRUE, rows |-> find_one(Mongo_DocsBySearchId(docs, id))]
  ELSE IF ~Falsy(artifact_type) /\ ~Falsy(artifact_value)
       THEN [ok |-> TRUE,
             rows |-> find_one(Mongo_DocsByArtifact(docs, artifact_type, artifact_value))]
       ELSE Mongo_ValueError

\* Mongo.store_search_results: insert_one, acknowledged; the collection has
\* no index on search_id.
Mongo_store_search_results(docs, oid, id, artifact_type, artifact_value, hit) ==
  [ok |-> TRUE,
   docs |-> Append(docs, [_id |-> oid, search_id |-> id,
                          artifact_type |-> artifact_type,
                          artifact_value |-> artifact_value, hit |-> hit])]

\* ---------------------------------------------------------------- start-up
\* Tables as the program may find them: n rows, primary keys distinct.
PreActiveTables ==
  UNION { { [i \in 1..n |-> [search_id |-> <<"serial", i>>,
                             artifact_type |-> f[i].type,
                             artifact_value |-> f[i].value]]
            : f \in [1..n -> Fingerprints] } : n \in 0..MaxPreRows }

PreResultTables ==
  UNION { { [i \in 1..n |-> [search_id |-> <<"uuid", 0 - i>>,
                             artifact_type |-> f[i].type,
                             artifact_value |-> f[i].value,
                             hit |-> json_dumps(<<"stored", i>>)]]
            : f \in [1..n -> Fingerprints] } : n \in 0..MaxPreRows }

\* ---------------------------------------------------------------- hit properties
SUPPORTED_TYPES == <<"string", "number", "uri", "ip", "lat_lang">>

VALID_KEYS == <<"type", "name", "value">>

\* x in a Python list.
InList(x, list) == \E i \in DOMAIN list : list[i] = x

\* Python values by their type(): what types_match looks at.
PyValues ==
  { [pytype |-> "str", repr |-> "x"], [pytype |-> "int", repr |-> "1"],
    [pytype |-> "dict", repr |-> "{}"], [pytype |-> "bool", repr |-> "True"],
    [pytype |-> "NoneType", repr |-> "None"], [pytype |-> "float", repr |-> "1.5"] }

\* Property types a caller may pass: the supported ones and others.
PropertyTypes == {"string", "number", "uri", "ip", "lat_lang", "lat_lng", "hash"}

PropertyNames == {"n", "m"}

\* ArtifactPropertyDTO.supported_type: the exception raised, or None.
supported_type(type) ==
  IF ~InList(type, SUPPORTED_TYPES) THEN "PropertyTypeNotSupported" ELSE None

\* ArtifactPropertyDTO.types_match: the exception raised, or None.
types_match(prop_type, value) ==
  IF prop_type = "string" /\ value.pytype # "str" THEN "ValueTypeMismatch"
  ELSE IF prop_type = "number" /\ value.pytype # "int" THEN "ValueTypeMismatch"
  ELSE IF prop_type = "uri" /\ value.pytype # "str" THEN "ValueTypeMismatch"
  ELSE IF prop_type = "ip" /\ value.pytype # "str" THEN "ValueTypeMismatch"
  ELSE IF prop_type = "lat_lng" /\ value.pytype # "dict" THEN "ValueTypeMismatch"
  ELSE None

\* ArtifactPropertyDTO.__init__: supported_type, then types_match, then the
\* dict is filled.
ArtifactPropertyDTO(type, name, value) ==
  IF supported_type(type) # None
  THEN [status |-> "raised", exc |-> supported_type(type)]
  ELSE IF types_match(type, value) # None
       THEN [status |-> "raised", exc |-> types_match(type, value)]
       ELSE [status |-> "built", exc |-> None,
             items |-> [type |-> type, name |-> name, value |-> value]]

\* No property is being built.
DtoIdle ==
  /\ dto_args = [type |-> "string", name |-> "n", value |-> [pytype |-> "str", repr |-> "x"]]
  /\ dto = [status |-> "unbuilt"]
  /\ dto_sets = 0

\* No call has been made on the two backends; the collections are empty.
NoCall == [op |-> "none", key |-> 0, type |-> None, value |-> None,
           calls |-> 0, inserts |-> 0]

NoOutcome == [ok |-> TRUE, exc |-> None, records |-> <<>>]

PortIdle ==
  /\ mongo_active = <<>>
  /\ mongo_results = <<>>
  /\ port_call = NoCall
  /\ port_before = [sql |-> <<>>, mongo |-> <<>>]
  /\ sql_out = NoOutcome
  /\ mongo_out = NoOutcome

\* No request has arrived.
HandlersIdle ==
  /\ pc = [r \in Reqs |-> "idle"]
  /\ artifact_payload = [r \in Reqs |-> [type |-> None, value |-> None]]
  /\ file_payload = [r \in Reqs |-> FALSE]
  /\ file = [r \in Reqs |-> "none"]
  /\ unlinks = [r \in Reqs |-> 0]
  /\ lookups = [r \in Reqs |-> [results |-> "pending", active |-> "pending"]]
  /\ past_results = [r \in Reqs |-> <<>>]
  /\ active_searches = [r \in Reqs |-> <<>>]
  /\ search_id = [r \in Reqs |-> None]
  /\ marker = [r \in Reqs |-> None]
  /\ task = [r \in Reqs |-> "none"]
  /\ task_result = [r \in Reqs |-> None]
  /\ cb = [r \in Reqs |-> "none"]
  /\ rm = [r \in Reqs |-> "none"]
  /\ rm_time = [r \in Reqs |-> "none"]
  /\ st = [r \in Reqs |-> "none"]
  /\ resp = [r \in Reqs |-> NoResp]

Init ==
  /\ active \in PreActiveTables
  /\ results \in PreResultTables
  /\ Len(active) + Len(results) <= MaxPreRows
  /\ HandlersIdle
  /\ PortIdle
  /\ DtoIdle

\* ---------------------------------------------------------------- handler
\* scanArtifactHandler up to the gather: the body is parsed (and the temp
\* file written, for a multipart request), DB() is built.
Receive(r) ==
  /\ pc[r] = "idle"
  /\ \A q \in Reqs : q < r => pc[q] # "idle"
  /\ \E a \in RequestArtifacts :
       /\ artifact_payload' = [artifact_payload EXCEPT ![r] = a]
       /\ file_payload' = [file_payload EXCEPT ![r] = IsMultipart(a)]
       /\ file' = [file EXCEPT ![r] = IF IsMultipart(a) THEN "present" ELSE "none"]
  /\ pc' = [pc EXCEPT ![r] = "gather"]
  /\ UNCHANGED <<active, results, unlinks, lookups, past_results, active_searches,
                 search_id, marker, task, task_result, cb, rm, rm_time, st, resp>>
  /\ UNCHANGED <<port_vars, dto_vars>>

\* Variant: the decorator swallows a failed connect and answers with no rows.
handle_db_connection_Swallowed(up, result) ==
  IF up THEN result ELSE [ok |-> TRUE, rows |-> <<>>]

\* handle_db_connection.inner: asyncpg.connect comes first and raises when
\* the store is unavailable; otherwise the outcome is the wrapped function's.
handle_db_connection(up, result) ==
  IF up THEN result ELSE Raised

\* What became of a lookup: the store was unavailable, or the wrapped
\* function returned rows, or it raised.
LookupStatus(up, result) ==
  IF ~up THEN "unavailable" ELSE IF result.ok THEN "ok" ELSE "raised"

\* db.search_for_results(artifact_type=..., artifact_value=...) inside the
\* gather; an exception of either lookup ends the handler.
LookupResults(r) ==
  /\ pc[r] = "gather"
  /\ lookups[r].results = "pending"
  /\ \E up \in BOOLEAN :
       LET rows == search_for_results(results, None, artifact_payload[r].type,
                                      artifact_payload[r].value)
           res == handle_db_connection(up, rows)
       IN /\ lookups' = [lookups EXCEPT ![r].results = LookupStatus(up, rows)]
          /\ IF res.ok
             THEN /\ past_results' = [past_results EXCEPT ![r] = res.rows]
                  /\ UNCHANGED <<pc, resp>>
             ELSE /\ pc' = [pc EXCEPT ![r] = "error"]
                  /\ resp' = [resp EXCEPT ![r] = ErrorResponse]
                  /\ UNCHANGED past_results
  /\ UNCHANGED <<active, results, artifact_payload, file_payload, file, unlinks,
                 active_searches, search_id, marker, task, task_result, cb,
                 rm, rm_time, st>>
  /\ UNCHANGED <<port_vars, dto_vars>>

\* db.search_for_active_search(artifact_type=..., artifact_value=...) inside
\* the gather.
LookupActive(r) ==
  /\ pc[r] = "gather"
  /\ lookups[r].active = "pending"
  /\ \E up \in BOOLEAN :
       LET rows == search_for_active_search(active, None, artifact_payload[r].type,
                                            artifact_payload[r].value)
           res == handle_db_connection(up, rows)
       IN /\ lookups' = [lookups EXCEPT ![r].active = LookupStatus(up, rows)]
          /\ IF res.ok
             THEN /\ active_searches' = [active_searches EXCEPT ![r] = res.rows]
                  /\ UNCHANGED <<pc, resp>>
             ELSE /\ pc' = [pc EXCEPT ![r] = "error"]
                  /\ resp' = [resp EXCEPT ![r] = ErrorResponse]
                  /\ UNCHANGED active_searches
  /\ UNCHANGED <<active, results, artifact_payload, file_payload, file, unlinks,
                 past_results, search_id, marker, task, task_result, cb,
                 rm, rm_time, st>>
  /\ UNCHANGED <<port_vars, dto_vars>>

\* The branch conditions of scanArtifactHandler, on the gathered rows.
\* Variant: the test on the active searches inverted.
LaunchCondition_Inverted(past, act) == Len(past) = 0 /\ Len(act) # 0

\* Variant: `or` for `and`.
LaunchCondition_Either(past, act) == Len(past) = 0 \/ Len(act) = 0

LaunchCondition(past, act) == Len(past) = 0 /\ Len(act) = 0

\* Variant: the comparison of the join branch off by one.
JoinCondition_OffByOne(past, act) == Len(act) > 1

JoinCondition(past, act) == Len(act) = 1

FoundCondition(past, act) == Len(past) = 1

\* web.Response(text=f"active search {active_searches[0].get('search_id')}")
InProgressResponse(act) == [status |-> "in_progress", search_id |-> act[1].search_id]

\* web.json_response(json.loads(past_results[0].get("hit")))
FoundResponse(past) == [status |-> "found", hit |-> json_loads(past[1].hit)]

\* web.Response(text="LAUNCHING SEARCH SMELL U L8R")
LaunchedResponse == [status |-> "launched"]

\* Variant: the searcher task is created and the search id drawn above the
\* if/elif chain, so the two answering branches launch as well.
Decide_LaunchHoisted(r) ==
  /\ pc[r] = "gather"
  /\ lookups[r].results = "ok" /\ lookups[r].active = "ok"
  /\ task' = [task EXCEPT ![r] = "scheduled"]
  /\ search_id' = [search_id EXCEPT ![r] = uuid4(r)]
  /\ IF LaunchCondition(past_results[r], active_searches[r])
     THEN /\ pc' = [pc EXCEPT ![r] = "registering"]
          /\ UNCHANGED <<resp, file, unlinks>>
     ELSE IF JoinCondition(past_results[r], active_searches[r])
     THEN /\ resp' = [resp EXCEPT ![r] = InProgressResponse(active_searches[r])]
          /\ pc' = [pc EXCEPT ![r] = "done"]
          /\ UNCHANGED <<file, unlinks>>
     ELSE IF FoundCondition(past_results[r], active_searches[r])
     THEN /\ resp' = [resp EXCEPT ![r] = FoundResponse(past_results[r])]
          /\ pc' = [pc EXCEPT ![r] = "done"]
          /\ UNCHANGED <<file, unlinks>>
     ELSE /\ resp' = [resp EXCEPT ![r] = [status |-> "null"]]
          /\ pc' = [pc EXCEPT ![r] = "done"]
          /\ file' = [file EXCEPT ![r] = IF file_payload[r] THEN "deleted" ELSE @]
          /\ unlinks' = [unlinks EXCEPT ![r] = IF file_payload[r] THEN @ + 1 ELSE @]
  /\ UNCHANGED <<active, results, artifact_payload, file_payload, lookups,
                 past_results, active_searches, marker, task_result, cb, rm,
                 rm_time, st>>
  /\ UNCHANGED <<port_vars, dto_vars>>

\* Variant: the launch branch unlinks the temp file as soon as the searcher
\* task is created, before the handler suspends.
Decide_UnlinkOnLaunch(r) ==
  /\ pc[r] = "gather"
  /\ lookups[r].results = "ok" /\ lookups[r].active = "ok"
  /\ IF LaunchCondition(past_results[r], active_searches[r])
     THEN /\ task' = [task EXCEPT ![r] = "scheduled"]
          /\ search_id' = [search_id EXCEPT ![r] = uuid4(r)]
          /\ pc' = [pc EXCEPT ![r] = "registering"]
          /\ file' = [file EXCEPT ![r] = IF file_payload[r] THEN "deleted" ELSE @]
          /\ unlinks' = [unlinks EXCEPT ![r] = IF file_payload[r] THEN @ + 1 ELSE @]
          /\ UNCHANGED resp
     ELSE IF JoinCondition(past_results[r], active_searches[r])
     THEN /\ resp' = [resp EXCEPT ![r] = InProgressResponse(active_searches[r])]
          /\ pc' = [pc EXCEPT ![r] = "done"]
          /\ UNCHANGED <<task, search_id, file, unlinks>>
     ELSE IF FoundCondition(past_results[r], active_searches[r])
     THEN /\ resp' = [resp EXCEPT ![r] = FoundResponse(past_results[r])]
          /\ pc' = [pc EXCEPT ![r] = "done"]
          /\ UNCHANGED <<task, search_id, file, unlinks>>
     ELSE /\ resp' = [resp EXCEPT ![r] = [status |-> "null"]]
          /\ pc' = [pc EXCEPT ![r] = "done"]
          /\ file' = [file EXCEPT ![r] = IF file_payload[r] THEN "deleted" ELSE @]
          /\ unlinks' = [unlinks EXCEPT ![r] = IF file_payload[r] THEN @ + 1 ELSE @]
          /\ UNCHANGED <<task, search_id>>
  /\ UNCHANGED <<active, results, artifact_payload, file_payload, lookups,
                 past_results, active_searches, marker, task_result, cb, rm,
                 rm_time, st>>
  /\ UNCHANGED <<port_vars, dto_vars>>

\* The handler from the end of the gather to its next suspension point or its
\* return.  Launch path: the searcher task is created and the done-callback
\* attached, then the handler suspends in add_active_search (the connection
\* is opened first).  Otherwise it returns: a response, or, when neither
\* elif matches, the temp file is unlinked and None is returned.
Decide(r) ==
  /\ pc[r] = "gather"
  /\ lookups[r].results = "ok" /\ lookups[r].active = "ok"
  /\ IF LaunchCondition(past_results[r], active_searches[r])
     THEN /\ task' = [task EXCEPT ![r] = "scheduled"]
          /\ search_id' = [search_id EXCEPT ![r] = uuid4(r)]
          /\ pc' = [pc EXCEPT ![r] = "registering"]
          /\ UNCHANGED <<resp, file, unlinks>>
     ELSE IF JoinCondition(past_results[r], active_searches[r])
     THEN /\ resp' = [resp EXCEPT ![r] = InProgressResponse(active_searches[r])]
          /\ pc' = [pc EXCEPT ![r] = "done"]
          /\ UNCHANGED <<task, search_id, file, unlinks>>
     ELSE IF FoundCondition(past_results[r], active_searches[r])
     THEN /\ resp' = [resp EXCEPT ![r] = FoundResponse(past_results[r])]
          /\ pc' = [pc EXCEPT ![r] = "done"]
          /\ UNCHANGED <<task, search_id, file, unlinks>>
     ELSE /\ resp' = [resp EXCEPT ![r] = [status |-> "null"]]
          /\ pc' = [pc EXCEPT ![r] = "done"]
          /\ file' = [file EXCEPT ![r] = IF file_payload[r] THEN "deleted" ELSE @]
          /\ unlinks' = [unlinks EXCEPT ![r] = IF file_payload[r] THEN @ + 1 ELSE @]
          /\ UNCHANGED <<task, search_id>>
  /\ UNCHANGED <<active, results, artifact_payload, file_payload, lookups,
                 past_results, active_searches, marker, task_result, cb, rm,
                 rm_time, st>>
  /\ UNCHANGED <<port_vars, dto_vars>>

\* What the launch path passes to db.add_active_search.
RegisterArgs(r) == <<search_id[r], artifact_payload[r].type, artifact_payload[r].value>>

\* await db.add_active_search(search_id, type, value) resumes: the connection
\* is open (or asyncpg.connect raised), the wrapped function is called, and
\* the handler returns the launch response or ends with the exception: that
\* of the connection, or that of the call.
Register(r) ==
  /\ pc[r] = "registering"
  /\ \E up \in BOOLEAN :
       LET res == IF up THEN add_active_search(active, Len(active) + 1, RegisterArgs(r))
                        ELSE [ok |-> FALSE, rows |-> active, id |-> None]
       IN /\ active' = res.rows
          /\ marker' = [marker EXCEPT ![r] = res.id]
          /\ pc' = [pc EXCEPT ![r] = IF res.ok THEN "done" ELSE "error"]
          /\ resp' = [resp EXCEPT ![r] = IF res.ok THEN LaunchedResponse
                                                   ELSE ErrorResponse]
  /\ UNCHANGED <<results, artifact_payload, file_payload, file, unlinks, lookups,
                 past_results, active_searches, search_id, task, task_result, cb,
                 rm, rm_time, st>>
  /\ UNCHANGED <<port_vars, dto_vars>>

\* ---------------------------------------------------------------- searcher
\* The task created by asyncio.create_task(self.searcher(...)) gets its first
\* turn on the loop: any time after the handler suspended.
SearcherStart(r) ==
  /\ task[r] = "scheduled"
  /\ task' = [task EXCEPT ![r] = "running"]
  /\ UNCHANGED <<active, results, pc, artifact_payload, file_payload, file,
                 unlinks, lookups, past_results, active_searches, search_id,
                 marker, task_result, cb, rm, rm_time, st, resp>>
  /\ UNCHANGED <<port_vars, dto_vars>>

\* The searcher coroutine returns a payload or raises.
SearcherFinish(r) ==
  /\ task[r] = "running"
  /\ \/ \E p \in Payloads :
          /\ task' = [task EXCEPT ![r] = "ok"]
          /\ task_result' = [task_result EXCEPT ![r] = p]
     \/ /\ task' = [task EXCEPT ![r] = "failed"]
        /\ UNCHANGED task_result
  /\ UNCHANGED <<active, results, pc, artifact_payload, file_payload, file,
                 unlinks, lookups, past_results, active_searches, search_id,
                 marker, cb, rm, rm_time, st, resp>>
  /\ UNCHANGED <<port_vars, dto_vars>>

\* ---------------------------------------------------------------- completion
\* search_complete_handler, the task's done-callback.  future.result()
\* re-raises the searcher's exception: then the callback ends there, after
\* the first create_task only.
search_complete_handler(r) ==
  /\ task[r] \in {"ok", "failed"}
  /\ cb[r] = "none"
  /\ rm' = [rm EXCEPT ![r] = "scheduled"]
  /\ IF task[r] = "failed"
     THEN /\ cb' = [cb EXCEPT ![r] = "raised"]
          /\ UNCHANGED <<st, file, unlinks>>
     ELSE /\ st' = [st EXCEPT ![r] = "scheduled"]
          /\ file' = [file EXCEPT ![r] = IF file_payload[r] THEN "deleted" ELSE @]
          /\ unlinks' = [unlinks EXCEPT ![r] = IF file_payload[r] THEN @ + 1 ELSE @]
          /\ cb' = [cb EXCEPT ![r] = "returned"]
  /\ UNCHANGED <<active, results, pc, artifact_payload, file_payload, lookups,
                 past_results, active_searches, search_id, marker, task,
                 task_result, rm_time, resp>>
  /\ UNCHANGED <<port_vars, dto_vars>>

\* The task running db.remove_active_search(search_id).
RemoveTask(r) ==
  /\ rm[r] = "scheduled"
  /\ \E up \in BOOLEAN :
       IF up
       THEN /\ active' = remove_active_search(active, search_id[r])
            /\ rm' = [rm EXCEPT ![r] = "done"]
            /\ rm_time' = [rm_time EXCEPT ![r] = IF marker[r] # None THEN "after" ELSE "before"]
       ELSE /\ rm' = [rm EXCEPT ![r] = "failed"]
            /\ UNCHANGED <<active, rm_time>>
  /\ UNCHANGED <<results, pc, artifact_payload, file_payload, file, unlinks,
                 lookups, past_results, active_searches, search_id, marker,
                 task, task_result, cb, st, resp>>
  /\ UNCHANGED <<port_vars, dto_vars>>

\* The task running db.store_search_results(search_id, type, value,
\* json.dumps(future.result())).
StoreTask(r) ==
  /\ st[r] = "scheduled"
  /\ \E up \in BOOLEAN :
       LET res == IF up
                  THEN store_search_results(results, search_id[r],
                                            artifact_payload[r].type,
                                            artifact_payload[r].value,
                                            json_dumps(task_result[r]))
                  ELSE [ok |-> FALSE, rows |-> results]
       IN /\ results' = res.rows
          /\ st' = [st EXCEPT ![r] = IF res.ok THEN "done" ELSE "failed"]
  /\ UNCHANGED <<active, pc, artifact_payload, file_payload, file, unlinks,
                 lookups, past_results, active_searches, search_id, marker,
                 task, task_result, cb, rm, rm_time, resp>>
  /\ UNCHANGED <<port_vars, dto_vars>>

\* ---------------------------------------------------------------- system
Next ==
  \E r \in Reqs :
    \/ Receive(r)
    \/ LookupResults(r)
    \/ LookupActive(r)
    \/ Decide(r)
    \/ Register(r)
    \/ SearcherStart(r)
    \/ SearcherFinish(r)
    \/ search_complete_handler(r)
    \/ RemoveTask(r)
    \/ StoreTask(r)

Spec == Init /\ [][Next]_vars

\* ---------------------------------------------------------------- backends
\* DB and Mongo driven side by side through the same sequence of calls,
\* both starting empty.  A call names an active search by the order of its
\* insertion (key k): each backend is handed the id it gave that search.
PortKeys == 1..MaxPortKeys

SqlId(k) == IF k = 0 THEN None ELSE <<"serial", k>>

MongoId(k) == IF k = 0 THEN None ELSE <<"oid", k>>

\* Arguments a lookup may be called with: each of type and value given,
\* None or empty.
PortArtifacts == [type : {None, "", "uri", "file"}, value : {None, "a"}]

\* What a caller sees of a returned record or document.
SqlRecords(rows) ==
  [i \in DOMAIN rows |-> [key |-> rows[i].search_id[2],
                          artifact_type |-> rows[i].artifact_type,
                          artifact_value |-> rows[i].artifact_value]]

MongoActiveRecords(docs) ==
  [i \in DOMAIN docs |-> [key |-> docs[i]._id[2],
                          artifact_type |-> docs[i].artifact_type,
                          artifact_value |-> docs[i].artifact_value]]

MongoResultRecords(docs) ==
  [i \in DOMAIN docs |-> [key |-> docs[i].search_id[2],
                          artifact_type |-> docs[i].artifact_type,
                          artifact_value |-> docs[i].artifact_value]]

Called(op, k, t, v, inserted) ==
  [op |-> op, key |-> k, type |-> t, value |-> v,
   calls |-> port_call.calls + 1, inserts |-> port_call.inserts + inserted]

Before == [sql |-> active, mongo |-> mongo_active]

handler_vars == <<pc, artifact_payload, file_payload, file, unlinks, lookups,
                  past_results, active_searches, search_id, marker, task,
                  task_result, cb, rm, rm_time, st, resp>>

\* add_active_search(type, value) on both.
PortInsertActive(f) ==
  /\ port_call.calls < MaxPortCalls
  /\ LET n == port_call.inserts + 1
         s == add_active_search(active, n, <<f.type, f.value>>)
         m == Mongo_add_active_search(mongo_active, MongoId(n), f.type, f.value)
     IN /\ active' = s.rows
        /\ mongo_active' = m.docs
        /\ sql_out' = [ok |-> s.ok, exc |-> None,
                       records |-> <<[key |-> s.id[2], artifact_type |-> f.type,
                                      artifact_value |-> f.value]>>]
        /\ mongo_out' = [ok |-> m.ok, exc |-> None,
                         records |-> <<[key |-> m.id[2], artifact_type |-> f.type,
                                        artifact_value |-> f.value]>>]
  /\ port_call' = Called("insertActiveSearch", 0, f.type, f.value, 1)
  /\ port_before' = Before
  /\ UNCHANGED <<results, mongo_results, handler_vars, dto_vars>>

\* search_for_active_search(search_id, artifact_type, artifact_value) on both.
PortFindActive(k, a) ==
  /\ port_call.calls < MaxPortCalls
  /\ LET s == search_for_active_search(active, SqlId(k), a.type, a.value)
         m == Mongo_search_for_active_search(mongo_active, MongoId(k), a.type, a.value)
     IN /\ sql_out' = [ok |-> s.ok, exc |-> IF s.ok THEN None ELSE "Exception",
                       records |-> SqlRecords(s.rows)]
        /\ mongo_out' = [ok |-> m.ok, exc |-> IF m.ok THEN None ELSE "ValueError",
                         records |-> MongoActiveRecords(m.rows)]
  /\ port_call' = Called("findActiveSearch", k, a.type, a.value, 0)
  /\ port_before' = Before
  /\ UNCHANGED <<active, results, mongo_active, mongo_results, handler_vars, dto_vars>>

\* remove_active_search(search_id) on both.
PortRemoveActive(k) ==
  /\ port_call.calls < MaxPortCalls
  /\ LET m == Mongo_remove_active_search(mongo_active, MongoId(k))
     IN /\ active' = remove_active_search(active, SqlId(k))
        /\ mongo_active' = m.docs
        /\ sql_out' = [ok |-> TRUE, exc |-> None, records |-> <<>>]
        /\ mongo_out' = [ok |-> m.ok, exc |-> m.exc, records |-> <<>>]
  /\ port_call' = Called("removeActiveSearch", k, None, None, 0)
  /\ port_before' = Before
  /\ UNCHANGED <<results, mongo_results, handler_vars, dto_vars>>

\* store_search_results(search_id, artifact_type, artifact_value, hit) on both.
PortInsertResult(k, f) ==
  /\ port_call.calls < MaxPortCalls
  /\ \E p \in Payloads :
       LET s == store_search_results(results, SqlId(k), f.type, f.value, json_dumps(p))
           m == Mongo_store_search_results(mongo_results,
                                           <<"oid", "result", port_call.calls + 1>>,
                                           MongoId(k), f.type, f.value, json_dumps(p))
       IN /\ results' = s.rows
          /\ mongo_results' = m.docs
          /\ sql_out' = [ok |-> s.ok,
                         exc |-> IF s.ok THEN None ELSE "UniqueViolationError",
                         records |-> <<>>]
          /\ mongo_out' = [ok |-> m.ok, exc |-> None, records |-> <<>>]
  /\ port_call' = Called("insertResult", k, f.type, f.value, 0)
  /\ port_before' = Before
  /\ UNCHANGED <<active, mongo_active, handler_vars, dto_vars>>

\* search_for_results(search_id, artifact_type, artifact_value) on both.
PortFindResult(k, a) ==
  /\ port_call.calls < MaxPortCalls
  /\ LET s == search_for_results(results, SqlId(k), a.type, a.value)
         m == Mongo_search_for_results(mongo_results, MongoId(k), a.type, a.value)
     IN /\ sql_out' = [ok |-> s.ok, exc |-> IF s.ok THEN None ELSE "Exception",
                       records |-> SqlRecords(s.rows)]
        /\ mongo_out' = [ok |-> m.ok, exc |-> IF m.ok THEN None ELSE "ValueError",
                         records |-> MongoResultRecords(m.rows)]
  /\ port_call' = Called("findResult", k, a.type, a.value, 0)
  /\ port_before' = Before
  /\ UNCHANGED <<active, results, mongo_active, mongo_results, handler_vars, dto_vars>>

InitPort ==
  /\ active = <<>>
  /\ results = <<>>
  /\ HandlersIdle
  /\ PortIdle
  /\ DtoIdle

NextPort ==
  \/ \E f \in Fingerprints : PortInsertActive(f)
  \/ \E k \in {0} \cup PortKeys : \E a \in PortArtifacts : PortFindActive(k, a)
  \/ \E k \in PortKeys : PortRemoveActive(k)
  \/ \E k \in PortKeys : \E f \in Fingerprints : PortInsertResult(k, f)
  \/ \E k \in {0} \cup PortKeys : \E a \in PortArtifacts : PortFindResult(k, a)

SpecPort == InitPort /\ [][NextPort]_vars

\* ---------------------------------------------------------------- property DTO
\* ArtifactPropertyDTO(type, name, value) is called.
Construct ==
  /\ dto.status = "unbuilt"
  /\ dto' = ArtifactPropertyDTO(dto_args.type, dto_args.name, dto_args.value)
  /\ UNCHANGED <<dto_args, dto_sets, active, results, handler_vars, port_vars>>

\* ArtifactPropertyDTO.__setitem__ on a built DTO: only the valid keys are
\* taken; the value is not looked at.
SetItem(key, value) ==
  /\ dto.status = "built"
  /\ dto_sets < MaxSetItems
  /\ dto_sets' = dto_sets + 1
  /\ IF ~InList(key, VALID_KEYS)
     THEN dto' = [dto EXCEPT !.exc = "InvalidPropertyKey"]
     ELSE dto' = [dto EXCEPT !.exc = None, !.items[key] = value]
  /\ UNCHANGED <<dto_args, active, results, handler_vars, port_vars>>

InitDTO ==
  /\ active = <<>>
  /\ results = <<>>
  /\ HandlersIdle
  /\ PortIdle
  /\ dto_args \in [type : PropertyTypes, name : PropertyNames, value : PyValues]
  /\ dto = [status |-> "unbuilt"]
  /\ dto_sets = 0

NextDTO ==
  \/ Construct
  \/ \E key \in {"name", "value", "id"} : \E value \in PyValues : SetItem(key, value)

SpecDTO == InitDTO /\ [][NextDTO]_vars

\* ---------------------------------------------------------------- vocabulary
\* Request r took the start-new-investigation branch.
LaunchPath(r) == search_id[r] # None

\* The handler of r has returned or ended with an exception.
HandlerFinished(r) == pc[r] \in {"done", "error"}

\* The handler of r got both lookups back and branched on them.
Decided(r) ==
  /\ pc[r] \notin {"idle", "gather"}
  /\ lookups[r].results = "ok" /\ lookups[r].active = "ok"

\* The searcher task of r has had a turn on the loop.
SearcherBegun(r) == task[r] \in {"running", "ok", "failed"}

SearcherFinished(r) == task[r] \in {"ok", "failed"}

\* The completion reaction of r has run and none of the tasks it scheduled is
\* still pending.
ReactionSettled(r) ==
  /\ cb[r] # "none"
  /\ rm[r] # "scheduled"
  /\ st[r] # "scheduled"

\* No store operation of the reaction of r failed on its connection.
NoStoreFailure(r) == rm[r] # "failed" /\ st[r] # "failed"

\* Rows of the results table for the fingerprint of request r / with its id.
ResultsFor(r) ==
  RowsByArtifact(results, artifact_payload[r].type, artifact_payload[r].value)

ResultsOf(r) == RowsById(results, search_id[r])

ActiveOf(r) == RowsById(active, search_id[r])

\* r is the only request of the run for its fingerprint.
SoleRequest(r) ==
  \A q \in Reqs \ {r} : pc[q] # "idle" => artifact_payload[q] # artifact_payload[r]

\* ---------------------------------------------------------------- claims

\* C1: a single request for a fingerprint with no active search and no result
\* launches exactly one searcher task, and once that task, the completion
\* reaction and the reaction's store operations have finished (none of them
\* failing on its connection), exactly one result row for the fingerprint
\* exists.
C1_OneLaunchOneResult ==
  \A r \in Reqs :
    (Decided(r) /\ SoleRequest(r)
       /\ LaunchCondition(past_results[r], active_searches[r]))
    => /\ task[r] # "none"
       /\ (HandlerFinished(r) /\ SearcherFinished(r) /\ ReactionSettled(r)
             /\ NoStoreFailure(r))
          => Len(ResultsFor(r)) = 1

\* C2: a request whose lookup returned at least one result row, whatever the
\* number of active-search rows, answers with the hit of the first result
\* row and launches no searcher task.
C2_StoredResultWins ==
  \A r \in Reqs :
    (Decided(r) /\ Len(past_results[r]) >= 1)
    => /\ HandlerFinished(r)
       /\ resp[r] = FoundResponse(past_results[r])
       /\ task[r] = "none"

\* C3 as stated: a request whose lookups returned no result row and at least
\* one active-search row answers in_progress with the id of such a row and
\* launches no searcher task.
C3_JoinsAnyActive ==
  \A r \in Reqs :
    (Decided(r) /\ Len(past_results[r]) = 0 /\ Len(active_searches[r]) >= 1)
    => /\ resp[r].status = "in_progress"
       /\ \E i \in 1..Len(active_searches[r]) :
            resp[r].search_id = active_searches[r][i].search_id
       /\ task[r] = "none"

\* C3 amended: a request whose lookups returned no result row and exactly one
\* active-search row S answers in_progress with the id of S, a row of the
\* active-search table for the request's fingerprint, and launches no
\* searcher task.
C3_JoinsSoleActive ==
  \A r \in Reqs :
    (Decided(r) /\ Len(past_results[r]) = 0 /\ Len(active_searches[r]) = 1)
    => /\ HandlerFinished(r)
       /\ resp[r] = [status |-> "in_progress",
                     search_id |-> active_searches[r][1].search_id]
       /\ \E i \in 1..Len(active) :
            /\ active[i].search_id = resp[r].search_id
            /\ active[i].artifact_type = artifact_payload[r].type
            /\ active[i].artifact_value = artifact_payload[r].value
       /\ task[r] = "none"
       /\ ~LaunchPath(r)

\* A request joined the one in-flight search of its fingerprint.
C3_Witness ==
  \E r \in Reqs :
    /\ Decided(r)
    /\ Len(past_results[r]) = 0
    /\ Len(active_searches[r]) = 1
    /\ resp[r].status = "in_progress"

\* C4: for every launched investigation S, once the completion reaction and
\* the operations it scheduled have finished (none failing on its
\* connection), no active-search row with id S exists and exactly one result
\* row with id S exists.
C4_ReactionReconciles ==
  \A r \in Reqs :
    (LaunchPath(r) /\ ReactionSettled(r) /\ NoStoreFailure(r))
    => /\ Len(ActiveOf(r)) = 0
       /\ Len(ResultsOf(r)) = 1

\* C5: when the searcher task fails, the completion reaction returns
\* normally, having scheduled the write of a result row and the removal of
\* the active-search row.
C5_FailureRecorded ==
  \A r \in Reqs :
    (task[r] = "failed" /\ cb[r] # "none")
    => /\ cb[r] = "returned"
       /\ st[r] # "none"
       /\ rm[r] # "none"

\* C6: two requests for the same fingerprint that both got empty lookups
\* both launch a searcher task, each under its own search id.
C6_BothLaunch ==
  \A r1, r2 \in Reqs :
    (/\ r1 # r2
     /\ artifact_payload[r1] = artifact_payload[r2]
     /\ Decided(r1) /\ Decided(r2)
     /\ Len(past_results[r1]) = 0 /\ Len(active_searches[r1]) = 0
     /\ Len(past_results[r2]) = 0 /\ Len(active_searches[r2]) = 0)
    => /\ task[r1] # "none" /\ task[r2] # "none"
       /\ search_id[r1] # search_id[r2]

\* Two investigations of one fingerprint are running at once.
C6_Witness ==
  \E r1, r2 \in Reqs :
    /\ r1 # r2
    /\ task[r1] = "running" /\ task[r2] = "running"
    /\ artifact_payload[r1] = artifact_payload[r2]

\* C7: the removal scheduled by the completion reaction never takes effect
\* before the insertion of the active-search row it is meant to undo.
C7_RemovalAfterInsertion ==
  \A r \in Reqs : rm[r] = "done" => rm_time[r] = "after"

\* C8: on the launch path, once the handler is through its registration, an
\* active-search row for the fingerprint has been inserted, and its id is
\* the search id the completion reaction works with.
C8_MarkerInsertedUnderSearchId ==
  \A r \in Reqs :
    (LaunchPath(r) /\ HandlerFinished(r))
    => /\ marker[r] # None
       /\ marker[r] = search_id[r]

\* C9: the searcher task never begins before the active-search row of its
\* search is registered, and no searcher task exists for a request whose
\* registration failed.
C9_RegisteredBeforeSearcher ==
  \A r \in Reqs :
    /\ SearcherBegun(r) => marker[r] # None
    /\ (LaunchPath(r) /\ pc[r] = "error") => task[r] # "running"

\* C10: the temp file of a launched investigation is deleted only after the
\* searcher finished, and once the completion reaction has run it has been
\* deleted exactly once, whether the searcher succeeded or failed.
C10_FileDeletedOnce ==
  \A r \in Reqs :
    (LaunchPath(r) /\ file_payload[r])
    => /\ unlinks[r] > 0 => SearcherFinished(r)
       /\ cb[r] # "none" => (unlinks[r] = 1 /\ file[r] = "deleted")

\* C11: a request that carries a temp file and is answered from the stores
\* (stored hit returned, or running search referenced) has its file deleted
\* by the time the response is returned.
C11_ImmediateFileDeleted ==
  \A r \in Reqs :
    (/\ file_payload[r]
     /\ pc[r] = "done"
     /\ resp[r].status \in {"found", "in_progress"})
    => file[r] = "deleted"

\* C12: in every reachable state the results table holds at most one row for
\* any search id, whatever number of requests, searcher completions and
\* completion reactions has run.
C12_OneResultPerSearchId ==
  \A i \in DOMAIN results : \A j \in DOMAIN results :
    results[i].search_id = results[j].search_id => i = j

\* Two investigations have both had their result stored.
C12_Witness ==
  /\ \A r \in Reqs : st[r] = "done"
  /\ Len(results) >= MaxReqs

\* C13: every request whose two lookups both returned is answered with one
\* of the three responses launched (carrying its search id), in_progress
\* (carrying the id of the running search) or found (carrying the hit),
\* whatever the numbers of result rows and active-search rows it read.
C13_OneOfThreeResponses ==
  \A r \in Reqs :
    (Decided(r) /\ HandlerFinished(r))
    => \/ /\ resp[r].status = "launched"
          /\ "search_id" \in DOMAIN resp[r]
       \/ /\ resp[r].status = "in_progress"
          /\ "search_id" \in DOMAIN resp[r]
       \/ /\ resp[r].status = "found"
          /\ "hit" \in DOMAIN resp[r]

\* C14: once the completion reaction of a launched investigation has run,
\* the removal of its active-search row has been scheduled and its temp file
\* has been deleted, also when the searcher's payload could not be produced
\* or the write of the result fails.
C14_RemovalAndDeletionUnconditional ==
  \A r \in Reqs :
    (cb[r] # "none" /\ (task[r] = "failed" \/ st[r] = "failed"))
    => /\ rm[r] # "none"
       /\ file_payload[r] => file[r] = "deleted"

\* C15: the handler does not wait for the searcher: whenever the handler of a
\* launched investigation is at its registration while the searcher task is
\* still running, its next step can return the launched response.
C15_LaunchedWhileSearcherRuns ==
  \A r \in Reqs :
    (pc[r] = "registering" /\ task[r] = "running")
    => ENABLED (Register(r) /\ resp'[r] = LaunchedResponse)

\* A lookup of r's gather found the store unavailable.
LookupUnavailable(r) ==
  lookups[r].results = "unavailable" \/ lookups[r].active = "unavailable"

\* C16: when one of the two gathered lookups finds the store unavailable, the
\* request ends with an error response, no searcher task exists for it, it
\* has written no active-search row and no result row, and neither lookup is
\* issued again.
C16_LookupFailureIsFatal ==
  \A r \in Reqs :
    LookupUnavailable(r)
    => /\ pc[r] = "error"
       /\ resp[r] = ErrorResponse
       /\ task[r] = "none"
       /\ search_id[r] = None /\ marker[r] = None
       /\ rm[r] = "none" /\ st[r] = "none"
       /\ lookups[r].results = "unavailable" => ~ENABLED LookupResults(r)
       /\ lookups[r].active = "unavailable" => ~ENABLED LookupActive(r)
       /\ ~ENABLED Decide(r)

\* A request with a complete fingerprint got its stored results and then
\* found the store unavailable for the active-search lookup.
C16_Witness ==
  \E r \in Reqs :
    /\ artifact_payload[r] \in Fingerprints
    /\ lookups[r].results = "ok"
    /\ lookups[r].active = "unavailable"
    /\ pc[r] = "error"

\* The last call made on both backends was a lookup.
PortLookup == port_call.op \in {"findActiveSearch", "findResult"}

\* C17: remove_active_search called with an id that matches no active
\* search fails with ActiveSearchNotFound and leaves the store as it was, in
\* DB and in Mongo.
C17_RemoveMissingFails ==
  port_call.op = "removeActiveSearch"
  => /\ RowsById(port_before.sql, SqlId(port_call.key)) = <<>>
        => /\ ~sql_out.ok
           /\ sql_out.exc = "ActiveSearchNotFound"
           /\ active = port_before.sql
     /\ Mongo_DocsById(port_before.mongo, MongoId(port_call.key)) = <<>>
        => /\ ~mongo_out.ok
           /\ mongo_out.exc = "ActiveSearchNotFound"
           /\ mongo_active = port_before.mongo

\* C18: a lookup called with no search id and with the type or the value of
\* the fingerprint missing or empty raises, in DB and in Mongo, and hands
\* back no record.
C18_IncompleteQueryFails ==
  (/\ PortLookup
   /\ port_call.key = 0
   /\ Falsy(port_call.type) \/ Falsy(port_call.value))
  => /\ ~sql_out.ok /\ sql_out.records = <<>>
     /\ ~mongo_out.ok /\ mongo_out.records = <<>>

\* A lookup by type alone was made on stores that hold an active search of
\* that type.
C18_Witness ==
  /\ port_call.op = "findActiveSearch"
  /\ port_call.key = 0
  /\ port_call.type = "uri" /\ port_call.value = None
  /\ \E i \in DOMAIN active : active[i].artifact_type = "uri"
  /\ \E i \in DOMAIN mongo_active : mongo_active[i].artifact_type = "uri"
  /\ ~sql_out.ok /\ ~mongo_out.ok

\* C19: a lookup called with a search id and a complete fingerprint raises,
\* in DB and in Mongo, and is answered by neither key.
C19_BothKeysRejected ==
  (/\ PortLookup
   /\ port_call.key # 0
   /\ ~Falsy(port_call.type) /\ ~Falsy(port_call.value))
  => /\ ~sql_out.ok /\ sql_out.records = <<>>
     /\ ~mongo_out.ok /\ mongo_out.records = <<>>

\* C20: after every sequence of calls made on both backends from empty
\* stores, the last call succeeded in both or failed in both, and handed
\* back the same records, each as many times.
C20_BackendsAgree ==
  /\ sql_out.ok = mongo_out.ok
  /\ sql_out.records = mongo_out.records

\* Request r was answered from the stores: with a stored hit, or with the id
\* of a running search.
AnsweredFromStores(r) == resp[r].status \in {"found", "in_progress"}

\* C21: a request answered with a stored result or with a reference to a
\* running search has issued no store write: it drew no search id, created
\* no searcher task, inserted no active-search row, scheduled no removal and
\* no result write, and no result row carries an id of its own.
C21_AnsweredWithoutWrites ==
  \A r \in Reqs :
    AnsweredFromStores(r)
    => /\ pc[r] = "done"
       /\ search_id[r] = None /\ task[r] = "none" /\ cb[r] = "none"
       /\ marker[r] = None
       /\ rm[r] = "none" /\ st[r] = "none"
       /\ RowsById(results, uuid4(r)) = <<>>
       /\ RowsById(active, uuid4(r)) = <<>>

\* One request was answered with a stored hit and another with a running
\* search.
C21_Witness ==
  /\ \E r \in Reqs : resp[r].status = "found"
  /\ \E r \in Reqs : resp[r].status = "in_progress"

\* C22: once ArtifactPropertyDTO(type, name, value) has been called, a type
\* outside SUPPORTED_TYPES has raised PropertyTypeNotSupported, and a
\* supported type with a value of another Python type than the one it
\* needs (str for string, uri and ip; int for number; dict for the lat/long
\* type) has raised ValueTypeMismatch.
C22_ConstructionChecksTypes ==
  LET ValueType(type) == IF type \in {"string", "uri", "ip"} THEN "str"
                         ELSE IF type = "number" THEN "int"
                         ELSE "dict"
  IN
  (dto.status # "unbuilt" /\ dto_sets = 0)
  => /\ ~InList(dto_args.type, SUPPORTED_TYPES)
        => (dto.status = "raised" /\ dto.exc = "PropertyTypeNotSupported")
     /\ (/\ InList(dto_args.type, SUPPORTED_TYPES)
         /\ dto_args.value.pytype # ValueType(dto_args.type))
        => (dto.status = "raised" /\ dto.exc = "ValueTypeMismatch")

\* C23: a searcher task exists only for a request whose two lookups both
\* returned and both came back empty; a request that read an active-search
\* row or a result row for its fingerprint has no searcher task.
C23_LaunchOnlyOnEmptyLookups ==
  \A r \in Reqs :
    task[r] # "none"
    => /\ Decided(r)
       /\ past_results[r] = <<>>
       /\ active_searches[r] = <<>>

\* One request launched a searcher and another, which read rows for its
\* fingerprint, was answered without one.
C23_Witness ==
  /\ \E r \in Reqs : SearcherBegun(r)
  /\ \E q \in Reqs :
       /\ Decided(q)
       /\ Len(past_results[q]) + Len(active_searches[q]) > 0
       /\ pc[q] = "done"

\* C24: the temp file of a launched investigation is on disk as long as its
\* searcher task has not finished and as long as the completion reaction
\* has not run: no step of its handler or of another request unlinks it.
C24_FileKeptForSearcher ==
  \A r \in Reqs :
    (/\ LaunchPath(r)
     /\ file_payload[r]
     /\ ~SearcherFinished(r) \/ cb[r] = "none")
    => /\ file[r] = "present"
       /\ unlinks[r] = 0

\* The handler of a launched file investigation is over, a second request
\* has been handled to its end, and the searcher is still running.
C24_Witness ==
  \E r \in Reqs :
    /\ LaunchPath(r)
    /\ file_payload[r]
    /\ HandlerFinished(r)
    /\ task[r] = "running"
    /\ \E q \in Reqs \ {r} : HandlerFinished(q)

\* Active-search rows in the table for the fingerprint of request r.
ActiveFor(r) ==
  RowsByArtifact(active, artifact_payload[r].type, artifact_payload[r].value)

\* C25 as stated: while the table holds an active-search row for F and no
\* result row for F, every request for F whose lookups returned is answered
\* in_progress and launches nothing, and the row a request was referred to
\* is never removed afterwards.
C25_StaleMarkerBlocks ==
  \A r \in Reqs :
    /\ (Decided(r) /\ Len(ActiveFor(r)) >= 1 /\ ResultsFor(r) = <<>>)
       => /\ resp[r].status = "in_progress"
          /\ task[r] = "none"
    /\ resp[r].status = "in_progress"
       => RowsById(active, resp[r].search_id) # <<>>

\* C25 amended: while the table holds exactly one active-search row for F
\* and no result row for F, every request for F whose lookups returned is
\* answered in_progress with the id of that row and launches nothing, and
\* the row a request was referred to is never removed afterwards.
C25_SoleStaleMarkerBlocks ==
  \A r \in Reqs :
    /\ (Decided(r) /\ Len(ActiveFor(r)) = 1 /\ ResultsFor(r) = <<>>)
       => /\ resp[r] = InProgressResponse(ActiveFor(r))
          /\ task[r] = "none"
    /\ resp[r].status = "in_progress"
       => RowsById(active, resp[r].search_id) # <<>>

\* Two requests for one fingerprint were both referred to the same row,
\* which no searcher stands behind.
C25_Witness ==
  \E r \in Reqs : \E q \in Reqs \ {r} :
    /\ artifact_payload[r] = artifact_payload[q]
    /\ resp[r].status = "in_progress"
    /\ resp[q] = resp[r]
    /\ \A p \in Reqs : task[p] = "none"

====
